---- MODULE Spec2Model ----
(***************************************************************************)
(* Two Sum (cpp/0001.two-sum/main.cpp): Solution::twoSum, the brute-force  *)
(* pairwise scan, and Solution::twoSum2, the std::map based scan.          *)
(*                                                                         *)
(* A caller builds a vector<int> nums and an int target and calls twoSum   *)
(* and then twoSum2 on the same input.  Each loop iteration of the two     *)
(* functions is one step.  Indices are 0-based as in the source; the       *)
(* element nums[i] of the source is At(nums, i) here.                      *)
(*                                                                         *)
(* int is a two's-complement integer of IntBits bits: nums[i] + nums[j]    *)
(* and target - num wrap around modulo 2^IntBits.                          *)
(* Signed overflow is undefined in C++; the two's-complement wraparound    *)
(* is what the add and sub instructions of the build compute.              *)
(***************************************************************************)
EXTENDS Integers, Sequences, FiniteSets

\* Longest input vector explored.
MaxLen == 4

\* Width of int in bits (32 in the build, scaled down here).
IntBits == 2

\* Width of size_t in bits (64 in the build, scaled down here).
SizeBits == 4

Modulus == 2 ^ IntBits

IntMin == -(2 ^ (IntBits - 1))

IntMax == (2 ^ (IntBits - 1)) - 1

\* The values of type int.
IntRange == IntMin .. IntMax

SizeModulus == 2 ^ SizeBits

\* The result of an int operation whose mathematical value is x.
WrapInt(x) == ((x - IntMin) % Modulus) + IntMin

\* nums[i] + nums[j] as the machine computes it.
AddInt(a, b) == WrapInt(a + b)

\* target - num as the machine computes it.
SubInt(a, b) == WrapInt(a - b)

\* nums.size() - 1 in size_t arithmetic.
SizeMinusOne(n) == (n - 1) % SizeModulus

\* nums[i] for a 0-based index i.
At(s, k) == s[k + 1]

\* The vectors a caller can pass.
Inputs == UNION {[1 .. n -> IntRange] : n \in 0 .. MaxLen}

\* return {};
EmptyResult == << >>

\* std::map<int, int> cache; just constructed.
EmptyMap == [v \in {} |-> 0]

VARIABLES nums, target, pc1, i, j, result1, reads1, pc2, i2, cache, result2, reads2

vars == <<nums, target, pc1, i, j, result1, reads1, pc2, i2, cache, result2, reads2>>

twoSumVars == <<pc1, i, j, result1, reads1>>

twoSum2Vars == <<pc2, i2, cache, result2, reads2>>

----
\* The guard off by one: nums.size() < 1.
TooShort_OffByOne(s) == Len(s) < 1

\* The guard of both functions: nums.size() < 2.
TooShort(s) == Len(s) < 2

\* The inner loop started one too far: int j = i + 2.
InnerStart_Skip(k) == k + 2

\* The first j of the inner loop: int j = i + 1.
InnerStart(k) == k + 1

\* The test of the inner loop body: nums[i] + nums[j] == target.
SumMatches(s, t, a, b) == AddInt(At(s, a), At(s, b)) = t

\* The indices returned in the other order: return {j, i};
PairResult_Swapped(a, b) == <<b, a>>

\* return {i, j};
PairResult(a, b) == <<a, b>>

\* The lookup done as cache[key] != 0, which takes index 0 for absent.
Found_IndexZero(c, key) == key \in DOMAIN c /\ c[key] # 0

\* cache.find(key) != cache.cend()
Found(c, key) == key \in DOMAIN c

\* The insertion done as cache[num] = i, which overwrites.
Emplace_Overwrite(c, key, val) ==
  [v \in DOMAIN c \cup {key} |-> IF v = key THEN val ELSE c[v]]

\* cache.emplace(num, i): inserts only when the key is absent.
Emplace(c, key, val) ==
  IF key \in DOMAIN c
    THEN c
    ELSE [v \in DOMAIN c \cup {key} |-> IF v = key THEN val ELSE c[v]]

\* The operands exchanged: num - target.
Complement_Swapped(t, num) == SubInt(num, t)

\* The key looked up for the element num: target - num.
Complement(t, num) == SubInt(t, num)

----
Init ==
  /\ nums \in Inputs
  /\ target \in IntRange
  /\ pc1 = "guard"
  /\ i = 0
  /\ j = 0
  /\ result1 = EmptyResult
  /\ reads1 = 0
  /\ pc2 = "guard"
  /\ i2 = 0
  /\ cache = EmptyMap
  /\ result2 = EmptyResult
  /\ reads2 = 0

\* twoSum: if (nums.size() < 2) return {}; otherwise int i = 0.
TwoSumGuard ==
  /\ pc1 = "guard"
  /\ IF TooShort(nums)
       THEN /\ pc1' = "done"
            /\ result1' = EmptyResult
            /\ i' = i
       ELSE /\ pc1' = "outer"
            /\ i' = 0
            /\ result1' = result1
  /\ UNCHANGED <<nums, target, j, reads1>>
  /\ UNCHANGED twoSum2Vars

\* twoSum: the outer loop test i < nums.size() - 1; on exit, return {}.
TwoSumOuter ==
  /\ pc1 = "outer"
  /\ IF i < SizeMinusOne(Len(nums))
       THEN /\ pc1' = "inner"
            /\ j' = InnerStart(i)
            /\ result1' = result1
       ELSE /\ pc1' = "done"
            /\ result1' = EmptyResult
            /\ j' = j
  /\ UNCHANGED <<nums, target, i, reads1>>
  /\ UNCHANGED twoSum2Vars

\* twoSum: the inner loop test j < nums.size(), its body, ++j, and ++i on exit.
TwoSumInner ==
  /\ pc1 = "inner"
  /\ IF j < Len(nums)
       THEN /\ reads1' = reads1 + 2
            /\ IF SumMatches(nums, target, i, j)
                 THEN /\ pc1' = "done"
                      /\ result1' = PairResult(i, j)
                      /\ j' = j
                 ELSE /\ pc1' = "inner"
                      /\ j' = j + 1
                      /\ result1' = result1
            /\ i' = i
       ELSE /\ pc1' = "outer"
            /\ i' = i + 1
            /\ UNCHANGED <<j, result1, reads1>>
  /\ UNCHANGED <<nums, target>>
  /\ UNCHANGED twoSum2Vars

\* twoSum2: if (nums.size() < 2) return {}; otherwise the empty cache, int i = 0.
TwoSum2Guard ==
  /\ pc1 = "done"
  /\ pc2 = "guard"
  /\ IF TooShort(nums)
       THEN /\ pc2' = "done"
            /\ result2' = EmptyResult
            /\ UNCHANGED <<i2, cache>>
       ELSE /\ pc2' = "loop"
            /\ cache' = EmptyMap
            /\ i2' = 0
            /\ result2' = result2
  /\ UNCHANGED <<nums, target, reads2>>
  /\ UNCHANGED twoSumVars

\* twoSum2: the loop test i < nums.size(), its body, ++i; on exit, return {}.
TwoSum2Loop ==
  /\ pc2 = "loop"
  /\ IF i2 < Len(nums)
       THEN LET num == At(nums, i2)
                key == Complement(target, num)
            IN  /\ reads2' = reads2 + 1
                /\ IF Found(cache, key)
                     THEN /\ pc2' = "done"
                          /\ result2' = PairResult(cache[key], i2)
                          /\ UNCHANGED <<i2, cache>>
                     ELSE /\ pc2' = "loop"
                          /\ cache' = Emplace(cache, num, i2)
                          /\ i2' = i2 + 1
                          /\ result2' = result2
       ELSE /\ pc2' = "done"
            /\ result2' = EmptyResult
            /\ UNCHANGED <<i2, cache, reads2>>
  /\ UNCHANGED <<nums, target>>
  /\ UNCHANGED twoSumVars

Next ==
  \/ TwoSumGuard
  \/ TwoSumOuter
  \/ TwoSumInner
  \/ TwoSum2Guard
  \/ TwoSum2Loop

Spec == Init /\ [][Next]_vars

----
TypeOK ==
  /\ nums \in Inputs
  /\ target \in IntRange
  /\ pc1 \in {"guard", "outer", "inner", "done"}
  /\ pc2 \in {"guard", "loop", "done"}
  /\ i \in 0 .. MaxLen
  /\ j \in 0 .. MaxLen
  /\ i2 \in 0 .. MaxLen
  /\ DOMAIN cache \subseteq IntRange

----
\* Vocabulary of the properties.  Sums and differences here are those of the
\* unbounded integers, not of int.

Positions == 0 .. (Len(nums) - 1)

\* The index pairs a < b whose values sum to the target.
ValidPairs ==
  {p \in Positions \X Positions :
     /\ p[1] < p[2]
     /\ At(nums, p[1]) + At(nums, p[2]) = target}

\* (a, b) comes before (c, d) in row-major order.
LexLess(a, b, c, d) == a < c \/ (a = c /\ b < d)

\* r is a pair of distinct positions whose values sum to the target.
IsValidPair(r) ==
  /\ Len(r) = 2
  /\ r[1] \in Positions
  /\ r[2] \in Positions
  /\ r[1] # r[2]
  /\ At(nums, r[1]) + At(nums, r[2]) = target

\* Some sum of two elements, or some target - element, is not an int.
OverflowProne ==
  \/ \E a, b \in Positions : a # b /\ At(nums, a) + At(nums, b) \notin IntRange
  \/ \E a \in Positions : target - At(nums, a) \notin IntRange

Returned1 == pc1 = "done"

Returned2 == pc2 = "done"

\* The positions that have an earlier position holding target - nums[p].
Completions ==
  {p \in Positions : \E q \in Positions : q < p /\ At(nums, q) = target - At(nums, p)}

\* The positions before p holding target - nums[p].
Partners(p) ==
  {q \in Positions : q < p /\ At(nums, q) = target - At(nums, p)}

\* The least element of a non-empty set of naturals.
Least(S) == CHOOSE x \in S : \A y \in S : x <= y

----
\* C1: a non-empty result (i, j) of twoSum or twoSum2 has i # j, both in
\* 0..length-1 and nums[i] + nums[j] = target; when no pair sums to the
\* target both return the empty result.
C1_ResultIsValidPair ==
  /\ (Returned1 /\ result1 # EmptyResult) => IsValidPair(result1)
  /\ (Returned2 /\ result2 # EmptyResult) => IsValidPair(result2)
  /\ (Returned1 /\ ValidPairs = {}) => result1 = EmptyResult
  /\ (Returned2 /\ ValidPairs = {}) => result2 = EmptyResult

\* C2: if some positions i < j have nums[i] + nums[j] = target, twoSum and
\* twoSum2 both return a non-empty result.
C2_Complete ==
  /\ (Returned1 /\ ValidPairs # {}) => result1 # EmptyResult
  /\ (Returned2 /\ ValidPairs # {}) => result2 # EmptyResult

\* A run where the only valid pair is the last one scanned by twoSum.
C2_Witness ==
  /\ Returned1
  /\ Returned2
  /\ Len(nums) >= 3
  /\ ValidPairs = {<<Len(nums) - 2, Len(nums) - 1>>}
  /\ result1 # EmptyResult
  /\ result2 # EmptyResult

\* C3: on the same input twoSum returns a non-empty result exactly when
\* twoSum2 does.
C3_AgreeOnExistence ==
  (Returned1 /\ Returned2) => ((result1 # EmptyResult) <=> (result2 # EmptyResult))

\* Both found a pair, and not the same one.
C3_Witness ==
  /\ Returned1
  /\ Returned2
  /\ result1 # EmptyResult
  /\ result2 # EmptyResult
  /\ result1 # result2

\* C4: on a vector of length 0 or 1 both functions return the empty result
\* without entering their loops and without reading an element; twoSum never
\* evaluates size() - 1 on an empty vector.
C4_ShortInput ==
  /\ Len(nums) < 2 =>
       /\ pc1 \in {"guard", "done"}
       /\ pc2 \in {"guard", "done"}
       /\ result1 = EmptyResult
       /\ result2 = EmptyResult
       /\ reads1 = 0
       /\ reads2 = 0
       /\ i = 0
       /\ i2 = 0
  /\ pc1 = "outer" => Len(nums) # 0

\* Both calls have returned on a one-element vector.
C4_Witness ==
  /\ Len(nums) = 1
  /\ Returned1
  /\ Returned2
  /\ result1 = EmptyResult
  /\ result2 = EmptyResult

\* C5: every result has size 0 or 2, and a size-2 result (i, j) has i < j.
C5_ResultShape ==
  /\ Len(result1) \in {0, 2}
  /\ Len(result2) \in {0, 2}
  /\ Len(result1) = 2 => result1[1] < result1[2]
  /\ Len(result2) = 2 => result2[1] < result2[2]

\* twoSum2 returned a pair whose first index is not 0 and whose second index
\* is not the last one; twoSum returned a pair too.
C5_Witness ==
  /\ Returned1
  /\ Returned2
  /\ Len(result1) = 2
  /\ Len(result2) = 2
  /\ result2[1] > 0
  /\ result2[2] < Len(nums) - 1

\* C6: on inputs where a pairwise sum or a target - value leaves the int
\* range, twoSum and twoSum2 reach no error state and return the empty
\* result or a pair whose sum in the unbounded integers is the target.
C6_OverflowValid ==
  OverflowProne =>
    /\ pc1 \in {"guard", "outer", "inner", "done"}
    /\ pc2 \in {"guard", "loop", "done"}
    /\ Returned1 => (result1 = EmptyResult \/ result1 \in ValidPairs)
    /\ Returned2 => (result2 = EmptyResult \/ result2 \in ValidPairs)

\* C7: when twoSum returns (i, j), no pair before (i, j) in row-major order
\* sums to the target.
C7_FirstInRowMajor ==
  (Returned1 /\ result1 # EmptyResult) =>
    \A p \in ValidPairs : ~LexLess(p[1], p[2], result1[1], result1[2])

\* twoSum returned a valid pair, not at row 0, while a later valid pair exists.
C7_Witness ==
  /\ Returned1
  /\ result1 \in ValidPairs
  /\ result1[1] > 0
  /\ \E p \in ValidPairs : LexLess(result1[1], result1[2], p[1], p[2])

\* C8: when twoSum2 returns (k, i), i is the smallest position having an
\* earlier position that holds target - nums[i], k is the earliest position
\* holding target - nums[i], and k < i (never a position with itself).
C8_FirstCompletion ==
  (Returned2 /\ result2 # EmptyResult) =>
    /\ Len(result2) = 2
    /\ result2[1] < result2[2]
    /\ result2[2] \in Completions
    /\ result2[2] = Least(Completions)
    /\ result2[1] = Least(Partners(result2[2]))

\* C9: at the start of every iteration i of twoSum2 the keys of cache are
\* the values nums[0..i-1], each mapped to the smallest index holding it;
\* no step overwrites or removes an entry.
C9_CacheState ==
  pc2 = "loop" =>
    /\ DOMAIN cache = {At(nums, k) : k \in 0 .. (i2 - 1)}
    /\ \A v \in DOMAIN cache :
         cache[v] = Least({k \in 0 .. (i2 - 1) : At(nums, k) = v})

C9_CacheKeeps ==
  \A v \in DOMAIN cache : v \in DOMAIN cache' /\ cache'[v] = cache[v]

C9_CacheInvariant == []C9_CacheState /\ [][C9_CacheKeeps]_vars

\* An iteration starts after a repeated value was seen: fewer keys than
\* elements scanned.
C9_Witness ==
  /\ pc2 = "loop"
  /\ i2 >= 2
  /\ Cardinality(DOMAIN cache) < i2

\* C10: when exactly one pair i < j sums to the target, twoSum2 and twoSum
\* both return that pair; the two results differ only when more than one
\* pair sums to the target.
C10_UniquePair ==
  (Returned1 /\ Returned2) =>
    /\ Cardinality(ValidPairs) = 1 => (result1 \in ValidPairs /\ result2 \in ValidPairs)
    /\ result1 # result2 => Cardinality(ValidPairs) > 1

====
